---------------------------- MODULE Spec2Model ----------------------------
(* A model of makesite.py (gabfl/makesite): filename metadata extraction, *)
(* the front-matter splitter, the page builder, the list builder and the  *)
(* build orchestrator (main).                                             *)
(* Strings are TLA+ strings; TLC evaluates Len, \o and SubSeq on them.    *)
EXTENDS Integers, Sequences, FiniteSets, TLC

VARIABLES
    filename,       \* read_content: the path it is called with
    content,        \* read_content: the metadata dictionary, or the exception raised
    text,           \* separate_content_and_variables: its text argument
    boundary,       \* separate_content_and_variables: its boundary argument
    parts,          \* separate_content_and_variables: the pair it returns
    site_vars,      \* vars.py: the sections and each section's dictionary
    tree,           \* the source tree: directory -> the files in it
    fs,             \* the output tree: path -> text
    params,         \* main's params: the recent_<section> entries added to the defaults
    pc,             \* the statement of main that runs next
    sec,            \* the index in site_vars['sections'] of the section being built
    listing,        \* what glob.glob returned to the latest make_pages of a section
    section_pages,  \* main's section_pages
    exc,            \* the exception that ended main, if any
    run,            \* how many times main has been started
    trace,          \* the calls of main completed in this run, with their results
    first           \* the trace, output tree and end of the previous run

metaVars == <<filename, content>>
splitVars == <<text, boundary, parts>>
buildVars == <<site_vars, tree, fs, params, pc, sec, listing, section_pages,
               exc, run, trace, first>>
vars == <<filename, content, text, boundary, parts, site_vars, tree, fs, params,
          pc, sec, listing, section_pages, exc, run, trace, first>>

(***************************************************************************)
(* Bounds of the model.                                                    *)
(***************************************************************************)
MaxTail == 3
MaxText == 2
MaxFiles == 3
MaxRecent == 2
MaxRuns == 2

(***************************************************************************)
(* Strings.                                                                *)
(***************************************************************************)
Char(s, i) == SubSeq(s, i, i)

Digits == {"0", "1", "2", "3", "4", "5", "6", "7", "8", "9"}

DigitVal(c) ==
    CASE c = "0" -> 0 [] c = "1" -> 1 [] c = "2" -> 2 [] c = "3" -> 3
      [] c = "4" -> 4 [] c = "5" -> 5 [] c = "6" -> 6 [] c = "7" -> 7
      [] c = "8" -> 8 [] c = "9" -> 9

\* int() of a string of decimal digits
RECURSIVE Num(_)
Num(s) ==
    IF Len(s) = 0 THEN 0
    ELSE 10 * Num(SubSeq(s, 1, Len(s) - 1)) + DigitVal(Char(s, Len(s)))

\* str.find: the 0-based index of the first occurrence of sub in s, or -1
Find(s, sub) ==
    LET hits == {i \in 0..(Len(s) - Len(sub)) :
                     SubSeq(s, i + 1, i + Len(sub)) = sub}
    IN IF hits = {} THEN -1
       ELSE CHOOSE i \in hits : \A j \in hits : i <= j

\* str.rfind: the 0-based index of the last occurrence of sub in s, or -1
RFind(s, sub) ==
    LET hits == {i \in 0..(Len(s) - Len(sub)) :
                     SubSeq(s, i + 1, i + Len(sub)) = sub}
    IN IF hits = {} THEN -1
       ELSE CHOOSE i \in hits : \A j \in hits : i >= j

\* s[a:b] of Python, for 0 <= a, b <= len(s)
Slice(s, a, b) == SubSeq(s, a + 1, b)

\* os.path.basename: what follows the last "/"
Basename(path) == Slice(path, RFind(path, "/") + 1, Len(path))

\* s[:pos], or s when pos is -1
Before(s, pos) == IF pos = -1 THEN s ELSE Slice(s, 0, pos)

\* s.split('.')[0]: what precedes the first "."
SplitDotFirst(s) == Before(s, Find(s, "."))

(***************************************************************************)
(* read_content, lines 106-114: the metadata read from the file name.      *)
(***************************************************************************)
NoneValue == "None"

\* \d\d\d\d-\d\d-\d\d at the start of s
MatchesDate(s) ==
    /\ Len(s) >= 10
    /\ \A i \in {1, 2, 3, 4, 6, 7, 9, 10} : Char(s, i) \in Digits
    /\ Char(s, 5) = "-"
    /\ Char(s, 8) = "-"

\* re.search('^(?:(\d\d\d\d-\d\d-\d\d)-)?(.+)$', s): the groups, or None
DateSlugMatch(s) ==
    IF MatchesDate(s) /\ Len(s) >= 12 /\ Char(s, 11) = "-"
    THEN [matched |-> TRUE, group1 |-> SubSeq(s, 1, 10),
          group2 |-> SubSeq(s, 12, Len(s))]
    ELSE IF Len(s) >= 1
    THEN [matched |-> TRUE, group1 |-> NoneValue, group2 |-> s]
    ELSE [matched |-> FALSE, group1 |-> NoneValue, group2 |-> NoneValue]

IsLeap(y) == (y % 4 = 0 /\ y % 100 # 0) \/ y % 400 = 0

DaysInMonth(y, m) ==
    IF m = 2 THEN (IF IsLeap(y) THEN 29 ELSE 28)
    ELSE IF m \in {4, 6, 9, 11} THEN 30 ELSE 31

\* whether year y, month m, day d is a date of datetime
IsCalendarDate(y, m, d) ==
    /\ y >= 1
    /\ m >= 1 /\ m <= 12
    /\ d >= 1 /\ d <= DaysInMonth(y, m)

\* whether datetime.strptime(date, '%Y-%m-%d') accepts a \d\d\d\d-\d\d-\d\d string
StrptimeAccepts(date) ==
    IsCalendarDate(Num(SubSeq(date, 1, 4)), Num(SubSeq(date, 6, 7)),
                   Num(SubSeq(date, 9, 10)))

\* format_date: the date rendered in a format, or ValueError
format_date(date, fmt) ==
    IF StrptimeAccepts(date)
    THEN [exc |-> "none", value |-> <<fmt, date>>]
    ELSE [exc |-> "ValueError", value |-> <<>>]

EpochDate == "1970-01-01"

\* group(1) or '1970-01-01'
DateOrEpoch(match) ==
    IF match.group1 = NoneValue THEN EpochDate ELSE match.group1

\* the dictionary of lines 109-114 once its dates are formatted
MetadataDict(date_ymd, slug, date, date_rfc_2822) ==
    IF date.exc # "none" \/ date_rfc_2822.exc # "none"
    THEN [exc |-> "ValueError"]
    ELSE [exc |-> "none",
          date |-> date.value,
          date_ymd |-> date_ymd,
          date_rfc_2822 |-> date_rfc_2822.value,
          slug |-> slug]

\* lines 109-114 for a match: match.group(1) of None raises AttributeError
MetadataOfMatch(match, date_ymd) ==
    IF ~match.matched
    THEN [exc |-> "AttributeError"]
    ELSE MetadataDict(date_ymd, match.group2, format_date(date_ymd, "date_format"),
                      format_date(date_ymd, "rfc_2822"))

MetadataOf(match) == MetadataOfMatch(match, DateOrEpoch(match))

\* the dictionary of lines 107-114, or the exception raised while building it
Metadata(path) == MetadataOf(DateSlugMatch(SplitDotFirst(Basename(path))))


(***************************************************************************)
(* separate_content_and_variables, lines 136-147.                          *)
(***************************************************************************)
DefaultBoundary == "{# /variables #}"

Whitespace == {" "}

\* str.strip
RECURSIVE Strip(_)
Strip(s) ==
    IF Len(s) = 0 THEN s
    ELSE IF Char(s, 1) \in Whitespace THEN Strip(SubSeq(s, 2, Len(s)))
    ELSE IF Char(s, Len(s)) \in Whitespace THEN Strip(SubSeq(s, 1, Len(s) - 1))
    ELSE s

\* lines 144 and 147: the split at pos, and the text left whole
SplitAt(t, b, pos) ==
    <<Strip(Slice(t, 0, pos)), Strip(Slice(t, pos + Len(b), Len(t)))>>

Unsplit(t) == <<"", t>>

\* lines 143-147 for the position find returned
SeparateAt(t, b, pos) == IF pos > 0 THEN SplitAt(t, b, pos) ELSE Unsplit(t)

\* lines 143-147 with the test pos >= 0
SeparateAtOrAfterZero(t, b, pos) ==
    IF pos >= 0 THEN SplitAt(t, b, pos) ELSE Unsplit(t)

\* the function with the test pos >= 0 in place of pos > 0
separate_from_position_zero(t, b) == SeparateAtOrAfterZero(t, b, Find(t, b))

separate_content_and_variables(t, b) == SeparateAt(t, b, Find(t, b))

(***************************************************************************)
(* Values shared by the build: optional values, maps, exceptions.          *)
(***************************************************************************)
\* dict.get(key, default): an optional value is the empty set or a singleton
Get(opt, default) == IF opt = {} THEN default ELSE CHOOSE x \in opt : TRUE

EmptyMap == [k \in {} |-> NoneValue]

\* a dict with key k set to v
Put(map, k, v) == [x \in DOMAIN map \cup {k} |-> IF x = k THEN v ELSE map[x]]

\* an exception: its type and the file paths its message names
NoExc == [type |-> "none", names |-> {}, reading |-> NoneValue]

Raised(type, path) == [type |-> type, names |-> {}, reading |-> path]

StartsWith(s, pre) == Len(s) >= Len(pre) /\ SubSeq(s, 1, Len(pre)) = pre

EndsWith(s, suf) ==
    Len(s) >= Len(suf) /\ SubSeq(s, Len(s) - Len(suf) + 1, Len(s)) = suf

(***************************************************************************)
(* fwrite, lines 81-88: the output tree is a map from path to text.        *)
(***************************************************************************)
fwrite(files, path, output) == Put(files, path, output)

(***************************************************************************)
(* read_content, lines 101-133.                                            *)
(***************************************************************************)
MarkdownExtensions == {".md", ".mkd", ".mkdn", ".mdown", ".markdown"}

\* file: [name, has_title, has_post] in directory dir; the text stays abstract:
\* what it was read from, whether it went through the Markdown converter, and
\* which of the elements with id title and id post its rendering holds
ContentOf(src_path, file, meta) ==
    IF meta.exc # "none"
    THEN [exc |-> Raised(meta.exc, src_path)]
    ELSE [exc |-> NoExc,
          date |-> meta.date,
          date_ymd |-> meta.date_ymd,
          date_rfc_2822 |-> meta.date_rfc_2822,
          slug |-> meta.slug,
          content |-> [src |-> src_path,
                       markdown |-> \E e \in MarkdownExtensions :
                                        EndsWith(src_path, e),
                       has_title |-> file.has_title,
                       has_post |-> file.has_post]]

read_content(dir, file) ==
    ContentOf(dir \o "/" \o file.name, file, Metadata(dir \o "/" \o file.name))

(***************************************************************************)
(* render, lines 160-169: Jinja is outside the program; a rendering is     *)
(* the template together with the parameters it was rendered against.      *)
(***************************************************************************)
SlugPlaceholder == "{{ slug }}"

\* render(dst, **kwargs) of a destination template that may hold {{ slug }}
Substitute(dst, pos, slug) ==
    IF pos = -1 THEN dst
    ELSE Slice(dst, 0, pos) \o slug
             \o Slice(dst, pos + Len(SlugPlaceholder), Len(dst))

RenderDst(dst, slug) == Substitute(dst, Find(dst, SlugPlaceholder), slug)

\* render(context['content'], **kwargs), line 182
RenderPage(context, kwargs) ==
    [kind |-> "page",
     src |-> context.content.src,
     markdown |-> context.content.markdown,
     has_title |-> context.content.has_title,
     has_post |-> context.content.has_post,
     date_ymd |-> context.date_ymd,
     slug |-> context.slug,
     params |-> kwargs]

(***************************************************************************)
(* sorted(items, key=date_ymd, reverse=True), line 193: Python's sort is   *)
(* stable, also when reversed.                                             *)
(***************************************************************************)
CharCode(c) == IF c = "-" THEN 45 ELSE 48 + DigitVal(c)

\* a < b for strings of digits and dashes
RECURSIVE StrLess(_, _)
StrLess(a, b) ==
    IF Len(b) = 0 THEN FALSE
    ELSE IF Len(a) = 0 THEN TRUE
    ELSE IF Char(a, 1) # Char(b, 1)
         THEN CharCode(Char(a, 1)) < CharCode(Char(b, 1))
    ELSE StrLess(SubSeq(a, 2, Len(a)), SubSeq(b, 2, Len(b)))

\* x put into a list sorted descending, behind the items that are not smaller
RECURSIVE InsertDesc(_, _)
InsertDesc(sorted, x) ==
    IF sorted = <<>> THEN <<x>>
    ELSE IF StrLess(Head(sorted).date_ymd, x.date_ymd)
         THEN <<x>> \o sorted
    ELSE <<Head(sorted)>> \o InsertDesc(Tail(sorted), x)

RECURSIVE StableSortDesc(_)
StableSortDesc(items) ==
    IF items = <<>> THEN <<>>
    ELSE InsertDesc(StableSortDesc(SubSeq(items, 1, Len(items) - 1)),
                    items[Len(items)])

\* line 193 without its sort
UnsortedItems(items) == items

\* line 193
SortedItems(items) == StableSortDesc(items)

(***************************************************************************)
(* make_pages, lines 172-193: paths is what glob.glob(src) returned.     *)
(***************************************************************************)
\* lines 185-188: the record with its destination path
Item(context, dst_path) ==
    [date |-> context.date,
     date_ymd |-> context.date_ymd,
     date_rfc_2822 |-> context.date_rfc_2822,
     slug |-> context.slug,
     content |-> context.content,
     dest_path |-> dst_path]

RECURSIVE make_pages_loop(_, _, _, _, _, _, _)
\* lines 179-191 for one context
make_pages_body(dir, paths, k, dst, kwargs, items, files, context) ==
    IF context.exc.type # "none"
    THEN [exc |-> context.exc, items |-> <<>>, fs |-> files]
    ELSE make_pages_loop(dir, paths, k + 1, dst, kwargs,
                         Append(items, Item(context, RenderDst(dst, context.slug))),
                         fwrite(files, RenderDst(dst, context.slug),
                                RenderPage(context, kwargs)))

make_pages_loop(dir, paths, k, dst, kwargs, items, files) ==
    IF k > Len(paths)
    THEN [exc |-> NoExc, items |-> SortedItems(items), fs |-> files]
    ELSE make_pages_body(dir, paths, k, dst, kwargs, items, files,
                         read_content(dir, paths[k]))

make_pages(dir, paths, dst, kwargs, files) ==
    make_pages_loop(dir, paths, 1, dst, kwargs, <<>>, files)

(***************************************************************************)
(* get_title_and_summary, lines 222-225, and make_list, lines 196-219.     *)
(***************************************************************************)
\* soup.find(id=...) is None when the element is missing, and None has no .text:
\* AttributeError, whose message names no file
get_title_and_summary(files, path) ==
    IF files[path].kind # "page" \/ ~files[path].has_title \/ ~files[path].has_post
    THEN [exc |-> Raised("AttributeError", path)]
    ELSE [exc |-> NoExc,
          title |-> <<"title", files[path].src>>,
          summary |-> <<"summary", files[path].src>>]

\* render(item_layout, **item_params), line 207
RenderItem(item_layout, post, ts) ==
    [layout |-> item_layout,
     slug |-> post.slug,
     date_ymd |-> post.date_ymd,
     dest_path |-> post.dest_path,
     src |-> post.content.src,
     title |-> ts.title,
     summary |-> ts.summary]

\* line 211: limit is None (the empty set) or a number
LimitReached(limit, k) == limit # {} /\ \A n \in limit : k + 1 >= n

RECURSIVE make_list_loop(_, _, _, _, _, _)
\* lines 200-212 for one post, its title and summary
make_list_body(posts, k, item_layout, limit, files, items, ts) ==
    IF ts.exc.type # "none"
    THEN [exc |-> ts.exc, items |-> items]
    ELSE IF LimitReached(limit, k)
    THEN [exc |-> NoExc,
          items |-> Append(items, RenderItem(item_layout, posts[k + 1], ts))]
    ELSE make_list_loop(posts, k + 1, item_layout, limit, files,
                        Append(items, RenderItem(item_layout, posts[k + 1], ts)))

\* the loop of lines 199-212, k counted from 0 as enumerate does
make_list_loop(posts, k, item_layout, limit, files, items) ==
    IF k >= Len(posts)
    THEN [exc |-> NoExc, items |-> items]
    ELSE make_list_body(posts, k, item_layout, limit, files, items,
                        get_title_and_summary(files, posts[k + 1].dest_path))

\* render(list_layout, **kwargs), line 216
RenderList(list_layout, items, kwargs) ==
    [kind |-> "list", layout |-> list_layout, content |-> items,
     params |-> kwargs]

\* lines 214-219
WriteList(loop, dst, output, files) ==
    IF loop.exc.type # "none"
    THEN [exc |-> loop.exc, fs |-> files, output |-> [kind |-> "none"]]
    ELSE [exc |-> NoExc, fs |-> fwrite(files, dst, output), output |-> output]

ListOutput(loop, dst, list_layout, kwargs, files) ==
    WriteList(loop, dst, RenderList(list_layout, loop.items, kwargs), files)

make_list(posts, dst, list_layout, item_layout, limit, kwargs, files) ==
    ListOutput(make_list_loop(posts, 0, item_layout, limit, files, <<>>),
               dst, list_layout, kwargs, files)

(***************************************************************************)
(* main, lines 245-332.                                                    *)
(***************************************************************************)
DefaultRecentItems == 5

\* site_vars['envs'][env]['documentroot']
documentroot == "_site"

\* shutil.copytree('static', documentroot), line 260
StaticTree == Put(EmptyMap, documentroot \o "/css/style.css", [kind |-> "static"])

isdir(path) == path \in DOMAIN tree

\* lines 228-242
get_content_path(section, path) ==
    IF path # "" /\ isdir(path) THEN "content/" \o path
    ELSE IF section = "blog" /\ isdir("content/blog") THEN "content/blog"
    ELSE IF section = "news" /\ isdir("content/news") THEN "content/news"
    ELSE "content/" \o path

\* the files of dir that glob's * matches: it leaves out the names with a leading dot
Visible(dir) == IF isdir(dir) THEN {f \in tree[dir] : ~StartsWith(f.name, ".")} ELSE {}

\* glob.glob(dir + '/*' + ext)
GlobSuffix(dir, ext) == {f \in Visible(dir) : EndsWith(f.name, ext)}

\* glob.glob('content/_index.html')
GlobLanding == IF isdir("content") THEN {f \in tree["content"] : f.name = "_index.html"} ELSE {}

\* glob.glob('content/[!_]*.html')
GlobSitePages ==
    {f \in Visible("content") : EndsWith(f.name, ".html") /\ ~StartsWith(f.name, "_")}

\* the orders in which glob may return a set of files
Orders(S) ==
    {q \in [1..Cardinality(S) -> S] : \A i, j \in 1..Cardinality(S) : q[i] = q[j] => i = j}

\* str.title of a section's name
Title(name) == CASE name = "blog" -> "Blog" [] name = "news" -> "News" [] OTHER -> name

\* site_vars.get(name, {}), line 300
SectionVars(name) ==
    IF name \in DOMAIN site_vars.dicts THEN site_vars.dicts[name]
    ELSE [path |-> {}, files_extension |-> {}, name |-> {}, recent_items |-> {}]

\* lines 303-306 for the section called name
PathOf(name) == Get(SectionVars(name).path, name)
ExtOf(name) == Get(SectionVars(name).files_extension, ".html")
NameOf(name) == Get(SectionVars(name).name, Title(name))
RecentItemsOf(name) == Get(SectionVars(name).recent_items, DefaultRecentItems)

\* the section of the loop's current turn, lines 296-306
section == site_vars.sections[sec]
s_path == PathOf(section)
s_ext == ExtOf(section)
s_name == NameOf(section)
s_recent_items == RecentItemsOf(section)

\* line 313 without the section's path
IndexDstAtRoot == documentroot \o "/index.html"

\* the destinations of lines 310, 313, 317 and 321
ItemDst == documentroot \o "/" \o s_path \o "/{{ slug }}/index.html"
IndexDst == documentroot \o "/" \o s_path \o "/index.html"
RssDst == documentroot \o "/" \o s_path \o "/rss.xml"
RecentDst == documentroot \o "/" \o s_path \o "/recent.html"

\* blog=s_path, **params and blog=s_path, title=s_name, **params
PageParams == [blog |-> {s_path}, title |-> {}, shared |-> params]
ListParams == [blog |-> {s_path}, title |-> {s_name}, shared |-> params]
SiteParams == [blog |-> {}, title |-> {}, shared |-> params]

\* lines 325-326 with one key for every section
AddRecentUnderOneKey(shared, name, digest) == Put(shared, "recent", digest)

\* lines 325-326
AddRecent(shared, name, digest) == Put(shared, "recent_" \o name, digest)

Step(step, out) == [step |-> step, sec |-> sec, params |-> params, out |-> out]

Abort(e) ==
    /\ exc' = e
    /\ pc' = "aborted"

\* lines 249-293: the document root is made anew from static/
Setup ==
    /\ pc = "start"
    /\ fs' = StaticTree
    /\ params' = EmptyMap
    /\ sec' = 1
    /\ pc' = IF Len(site_vars.sections) = 0 THEN "landing" ELSE "pages"
    /\ trace' = <<>>
    /\ UNCHANGED <<site_vars, tree, listing, section_pages, exc, run, first>>
    /\ UNCHANGED <<metaVars, splitVars>>

\* what main keeps of a make_pages call for a section
PagesMade(made, order) ==
    /\ listing' = order
    /\ fs' = made.fs
    /\ IF made.exc.type # "none"
       THEN Abort(made.exc) /\ UNCHANGED <<section_pages, trace>>
       ELSE /\ section_pages' = made.items
            /\ trace' = Append(trace, Step("pages", made.items))
            /\ pc' = "index"
            /\ UNCHANGED exc

SectionPagesFrom(dir) ==
    \E order \in Orders(GlobSuffix(dir, s_ext)) :
        PagesMade(make_pages(dir, order, ItemDst, PageParams, fs), order)

\* lines 309-310
MakeSectionPages ==
    /\ pc = "pages"
    /\ SectionPagesFrom(get_content_path(section, s_path))
    /\ UNCHANGED <<site_vars, tree, params, sec, run, first>>
    /\ UNCHANGED <<metaVars, splitVars>>

ListMade(made, at, then) ==
    /\ fs' = made.fs
    /\ IF made.exc.type # "none"
       THEN Abort(made.exc) /\ UNCHANGED trace
       ELSE /\ trace' = Append(trace, Step(at, made.output))
            /\ pc' = then
            /\ UNCHANGED exc

\* one of the make_list calls of lines 313-322
SectionList(at, dst, list_layout, item_layout, limit, then) ==
    /\ pc = at
    /\ ListMade(make_list(section_pages, dst, list_layout, item_layout, limit,
                          ListParams, fs), at, then)
    /\ listing' = <<>>
    /\ UNCHANGED <<site_vars, tree, params, sec, section_pages, run, first>>
    /\ UNCHANGED <<metaVars, splitVars>>

MakeSectionIndex ==
    SectionList("index", IndexDst, "list.html", "item.html", {}, "rss")

MakeSectionRss ==
    SectionList("rss", RssDst, "feed.xml", "item.xml", {}, "recent")

MakeSectionRecent ==
    SectionList("recent", RecentDst, "list_recent.html", "item_recent.html",
                {s_recent_items}, "read_recent")

\* lines 325-326, and the loop's next turn
ReadRecent ==
    /\ pc = "read_recent"
    /\ params' = AddRecent(params, section, fs[RecentDst])
    /\ trace' = Append(trace, Step("read_recent", fs[RecentDst]))
    /\ sec' = sec + 1
    /\ pc' = IF sec < Len(site_vars.sections) THEN "pages" ELSE "landing"
    /\ UNCHANGED <<site_vars, tree, fs, listing, section_pages, exc, run, first>>
    /\ UNCHANGED <<metaVars, splitVars>>

Range(q) == {q[i] : i \in 1..Len(q)}

SitePagesMade(made, at, then) ==
    /\ fs' = made.fs
    /\ IF made.exc.type # "none"
       THEN Abort(made.exc) /\ UNCHANGED trace
       ELSE /\ trace' = Append(trace, Step(at, [kind |-> "pages",
                                 paths |-> {p.dest_path : p \in Range(made.items)}]))
            /\ pc' = then
            /\ UNCHANGED exc

\* one of the make_pages calls of lines 329-332
SitePages(at, files, dst, then) ==
    /\ pc = at
    /\ \E order \in Orders(files) :
         SitePagesMade(make_pages("content", order, dst, SiteParams, fs), at, then)
    /\ UNCHANGED <<site_vars, tree, params, sec, listing, section_pages, run, first>>
    /\ UNCHANGED <<metaVars, splitVars>>

MakeLanding ==
    SitePages("landing", GlobLanding, documentroot \o "/index.html", "site_pages")

MakeSitePages ==
    SitePages("site_pages", GlobSitePages,
              documentroot \o "/{{ slug }}/index.html", "done")

\* main is started again on the same source tree and configuration
Rerun ==
    /\ pc \in {"done", "aborted"}
    /\ run < MaxRuns
    /\ first' = [trace |-> trace, fs |-> fs, pc |-> pc]
    /\ run' = run + 1
    /\ pc' = "start"
    /\ exc' = NoExc
    /\ listing' = <<>>
    /\ section_pages' = <<>>
    /\ UNCHANGED <<site_vars, tree, fs, params, sec, trace>>
    /\ UNCHANGED <<metaVars, splitVars>>

Next ==
    \/ Setup
    \/ MakeSectionPages
    \/ MakeSectionIndex
    \/ MakeSectionRss
    \/ MakeSectionRecent
    \/ ReadRecent
    \/ MakeLanding
    \/ MakeSitePages
    \/ Rerun

(***************************************************************************)
(* Inputs of the two functions above.                                      *)
(***************************************************************************)
\* the strings over alphabet of length at most n
RECURSIVE Strs(_, _)
Strs(alphabet, n) ==
    IF n = 0 THEN {""}
    ELSE LET shorter == Strs(alphabet, n - 1)
         IN shorter \cup {s \o c : s \in shorter, c \in alphabet}

NameAlphabet == {"a", "-", ".", "7"}

\* how a file name may begin: dates, dates no calendar has, date-like strings
NamePrefixes ==
    {"", "2021-06-15", "2020-02-29", "2021-02-30", "2020-13-01",
     "0000-01-01", "2020-1-01", "20200101"}

Directories == {"", "content/", "content/v1.2/"}

Extensions == {"", ".md", ".html"}

Filenames ==
    {d \o p \o dash \o t \o e :
        d \in Directories, p \in NamePrefixes, dash \in {"", "-"},
        t \in Strs(NameAlphabet, MaxTail), e \in Extensions}

TextAlphabet == {" ", "b"}

Boundaries == {DefaultBoundary, "#"}

\* texts with no, one or two boundary markers
Texts(b) ==
    LET piece == Strs(TextAlphabet, MaxText)
    IN {p \o m \o q \o n \o r : p \in piece, q \in piece, r \in {"", "b"},
                                 m \in {"", b}, n \in {"", b}}

Pending == [exc |-> "pending"]

MetaIdle == filename = "" /\ content = Pending

SplitIdle == text = "" /\ boundary = "" /\ parts = <<>>

(***************************************************************************)
(* The configurations and source trees the build is run on.                *)
(***************************************************************************)
File(name, has_title, has_post) ==
    [name |-> name, has_title |-> has_title, has_post |-> has_post]

\* posts: two of one date, two of one slug, one without a date and without a
\* title element, one with a date no calendar has
BlogFiles ==
    {File("2021-06-15-alpha.md", TRUE, TRUE),
     File("2020-01-01-beta.md", TRUE, TRUE),
     File("2020-01-01-gamma.md", TRUE, TRUE),
     File("2019-12-31-alpha.v2.md", TRUE, TRUE),
     File("delta.md", FALSE, TRUE),
     File("2021-02-30-omega.md", TRUE, TRUE)}

NewsFiles ==
    {File("2022-03-01-archive.html", TRUE, TRUE),
     File("2022-04-01-item.html", TRUE, TRUE)}

LandingFile == File("_index.html", TRUE, TRUE)

SiteFiles == {File("about.html", TRUE, TRUE), File("blog.html", TRUE, TRUE)}

Dict(path, ext, name, recent) ==
    [path |-> path, files_extension |-> ext, name |-> name, recent_items |-> recent]

RecentChoices == {{}} \cup {{n} : n \in 0..MaxRecent}

\* one section, any few posts, any recent_items
OneSection ==
    /\ \E recent \in RecentChoices :
         site_vars = [sections |-> <<"blog">>,
                      dicts |-> Put(EmptyMap, "blog",
                                    Dict({"blog"}, {".md"}, {"Blog"}, recent))]
    /\ \E posts \in SUBSET BlogFiles :
         /\ Cardinality(posts) <= MaxFiles
         /\ tree = Put(Put(EmptyMap, "content", {LandingFile, File("about.html", TRUE, TRUE)}),
                       "content/blog", posts)

\* two sections, in either order, whose paths and slugs may meet
TwoSections ==
    /\ \E order \in {<<"blog", "news">>, <<"news", "blog">>},
          blog_path \in {{}, {"news"}, {"news/archive"}},
          news_dict \in {{}, {Dict({"news"}, {}, {"News"}, {1})}} :
         site_vars = [sections |-> order,
                      dicts |-> LET blog == Put(EmptyMap, "blog",
                                                Dict(blog_path, {".md"}, {}, {1}))
                                IN IF news_dict = {} THEN blog
                                   ELSE Put(blog, "news", CHOOSE d \in news_dict : TRUE)]
    /\ \E posts \in {{File("2021-06-15-alpha.md", TRUE, TRUE)},
                     {File("2020-01-01-beta.md", TRUE, TRUE),
                      File("2020-01-01-gamma.md", TRUE, TRUE)}},
          news \in {{}} \cup {{n} : n \in SUBSET NewsFiles},
          pages \in {{LandingFile}, {LandingFile} \cup SiteFiles} :
         tree = LET base == Put(Put(EmptyMap, "content", pages), "content/blog", posts)
                IN IF news = {} THEN base
                   ELSE Put(base, "content/news", CHOOSE n \in news : TRUE)

BuildStart ==
    /\ fs \in {EmptyMap, Put(EmptyMap, documentroot \o "/old/index.html", [kind |-> "stale"])}
    /\ params = EmptyMap
    /\ pc = "start"
    /\ sec = 1
    /\ listing = <<>>
    /\ section_pages = <<>>
    /\ exc = NoExc
    /\ run = 1
    /\ trace = <<>>
    /\ first = [trace |-> <<>>, fs |-> EmptyMap, pc |-> "none"]

BuildIdle ==
    /\ site_vars = [sections |-> <<>>, dicts |-> EmptyMap]
    /\ tree = EmptyMap
    /\ fs = EmptyMap
    /\ params = EmptyMap
    /\ pc = "none"
    /\ sec = 1
    /\ listing = <<>>
    /\ section_pages = <<>>
    /\ exc = NoExc
    /\ run = 1
    /\ trace = <<>>
    /\ first = [trace |-> <<>>, fs |-> EmptyMap, pc |-> "none"]

Init ==
    /\ OneSection \/ TwoSections
    /\ BuildStart
    /\ MetaIdle
    /\ SplitIdle

Spec == Init /\ [][Next]_vars

(***************************************************************************)
(* read_content applied to one file name.                                  *)
(***************************************************************************)
InitMeta ==
    /\ filename \in Filenames
    /\ content = Pending
    /\ SplitIdle
    /\ BuildIdle

ReadMetadata ==
    /\ content = Pending
    /\ content' = Metadata(filename)
    /\ UNCHANGED <<filename, splitVars, buildVars>>

NextMeta == ReadMetadata

SpecMeta == InitMeta /\ [][NextMeta]_vars

(***************************************************************************)
(* separate_content_and_variables applied to one text.                     *)
(***************************************************************************)
InitSplit ==
    /\ boundary \in Boundaries
    /\ text \in Texts(boundary)
    /\ parts = <<>>
    /\ MetaIdle
    /\ BuildIdle

Separate ==
    /\ parts = <<>>
    /\ parts' = separate_content_and_variables(text, boundary)
    /\ UNCHANGED <<metaVars, text, boundary, buildVars>>

NextSplit == Separate

SpecSplit == InitSplit /\ [][NextSplit]_vars


(***************************************************************************)
(* Claims about read_content's metadata.                                   *)
(***************************************************************************)
\* the file name without its extension (what follows its last dot)
StemOf(path) ==
    LET name == Basename(path)
    IN IF RFind(name, ".") = -1 THEN name ELSE Slice(name, 0, RFind(name, "."))

\* name is <stem>.<ext> with neither part empty, and not a hidden file
HasStemAndExt(path) ==
    LET name == Basename(path)
    IN /\ RFind(name, ".") > 0
       /\ RFind(name, ".") < Len(name) - 1
       /\ Char(name, 1) # "."

\* the stem is YYYY-MM-DD-<slug>, the date one of the calendar
IsDated(stem) ==
    /\ MatchesDate(stem)
    /\ Len(stem) >= 12
    /\ Char(stem, 11) = "-"
    /\ StrptimeAccepts(SubSeq(stem, 1, 10))

\* the stem carries no YYYY-MM-DD- prefix at all
IsUndated(stem) ==
    ~(MatchesDate(stem) /\ Len(stem) >= 12 /\ Char(stem, 11) = "-")

\* C4: for YYYY-MM-DD-<slug>.<ext> read_content returns the date and <slug>, for
\* <slug>.<ext> it returns 1970-01-01 and <slug>, whatever <slug> contains
\* (dots included).
C4_SlugIsStemWithoutDate ==
    (content # Pending /\ HasStemAndExt(filename)) =>
        LET stem == StemOf(filename)
        IN /\ IsDated(stem) =>
                /\ content.exc = "none"
                /\ content.date_ymd = SubSeq(stem, 1, 10)
                /\ content.slug = SubSeq(stem, 12, Len(stem))
           /\ IsUndated(stem) =>
                /\ content.exc = "none"
                /\ content.date_ymd = EpochDate
                /\ content.slug = stem

\* C9: for every file name with a non-empty stem the metadata extraction raises
\* nothing, and a stem that does not begin with a well-formed date gets
\* 1970-01-01 and the whole stem as slug. Stated for the names with at most one
\* dot, whose stem is the same however the extension is cut off.
C9_MalformedNeverAnError ==
    LET name == Basename(filename)
        stem == StemOf(filename)
    IN (content # Pending /\ Len(stem) > 0 /\ Find(name, ".") = RFind(name, ".")) =>
           /\ content.exc = "none"
           /\ ~IsDated(stem) =>
                /\ content.date_ymd = EpochDate
                /\ content.slug = stem

(***************************************************************************)
(* Claims about separate_content_and_variables.                            *)
(***************************************************************************)
\* C5, as claimed: a text that begins with the boundary marker splits into
\* empty variables and the body that follows the marker: the marker is not part
\* of the content.
C5_LeadingBoundaryDropped ==
    (parts # <<>> /\ StartsWith(text, boundary)) =>
        parts = <<"", SubSeq(text, Len(boundary) + 1, Len(text))>>

\* C5, amended: a text that begins with the boundary marker is returned whole as
\* the content, marker included and nothing stripped, with empty variables.
C5_LeadingBoundaryKept ==
    (parts # <<>> /\ StartsWith(text, boundary)) => parts = <<"", text>>

\* a text made of the marker and a body with blanks around it has been split
C5_Witness ==
    /\ parts # <<>>
    /\ StartsWith(text, boundary)
    /\ Len(text) > Len(boundary) + 1
    /\ Char(text, Len(boundary) + 1) = " "
    /\ Find(text, "b") # -1


(***************************************************************************)
(* Claims about make_pages and make_list.                                  *)
(***************************************************************************)
Min(a, b) == IF a <= b THEN a ELSE b

\* the records of q whose content was read from file f
RecordsOf(q, f) ==
    {i \in 1..Len(q) : EndsWith(q[i].content.src, "/" \o f.name)}

\* C1: make_pages returns one record per file glob enumerated, ordered by
\* date_ymd descending: no record's date_ymd is smaller than its successor's.
C1_OnePerFileDateDescending ==
    pc = "index" =>
        /\ Len(section_pages) = Len(listing)
        /\ \A f \in Range(listing) : Cardinality(RecordsOf(section_pages, f)) = 1
        /\ \A i \in 1..(Len(section_pages) - 1) :
              ~StrLess(section_pages[i].date_ymd, section_pages[i + 1].date_ymd)

\* make_pages has returned three records in another order than glob's
C1_Witness ==
    /\ pc = "index"
    /\ Len(listing) >= 3
    /\ \E i \in 1..Len(listing) : RecordsOf(section_pages, listing[i]) # {i}
    /\ \E i, j \in 1..Len(section_pages) :
          section_pages[i].date_ymd # section_pages[j].date_ymd

\* the records the previous run's make_pages returned for section number i
FirstPages(i) ==
    {first.trace[k].out : k \in {k \in 1..Len(first.trace) :
         first.trace[k].step = "pages" /\ first.trace[k].sec = i}}

\* C2: whatever the order in which glob returns the same files, make_pages
\* returns the same sequence of records: a second run's equals the first's.
C2_SameSequenceForAnyOrder ==
    (pc = "index" /\ run > 1) => \A q \in FirstPages(sec) : section_pages = q

\* the item fragments of a list are those of the first n records, in order
FragmentsOfFirst(list, n) ==
    /\ Len(list.content) = n
    /\ \A i \in 1..n : /\ i <= Len(section_pages)
                       /\ list.content[i].src = section_pages[i].content.src

\* C3: make_list renders the fragments of the first min(L, n) records for a
\* limit L >= 0, and of all n records for limit None.
C3_RendersMinLimitLen ==
    /\ pc = "rss" => FragmentsOfFirst(fs[IndexDst], Len(section_pages))
    /\ pc = "read_recent" =>
          FragmentsOfFirst(fs[RecentDst], Min(s_recent_items, Len(section_pages)))

\* main ended inside one of a section's make_list calls
AbortedInList ==
    /\ pc = "aborted"
    /\ trace # <<>>
    /\ trace[Len(trace)].step \in {"pages", "index", "rss"}

\* C8: when a record's output file lacks the element with id title or id post,
\* make_list fails and the failure identifies that output file.
C8_FailureNamesTheFile ==
    AbortedInList => /\ exc.type # "none"
                     /\ exc.reading \in exc.names

(***************************************************************************)
(* Claims about main.                                                      *)
(***************************************************************************)
Sections == site_vars.sections

\* the calls of this run that wrote a section's index, feed or digest
ListSteps == {k \in 1..Len(trace) : trace[k].step \in {"index", "rss", "recent"}}

ListFile(step) ==
    CASE step = "index" -> "/index.html"
      [] step = "rss" -> "/rss.xml"
      [] step = "recent" -> "/recent.html"

\* the path of the list that call number k of the run wrote
ListPath(k) ==
    documentroot \o "/" \o PathOf(Sections[trace[k].sec]) \o ListFile(trace[k].step)

Survives(k) == ListPath(k) \in DOMAIN fs /\ fs[ListPath(k)] = trace[k].out

\* C6, as claimed: after a build that ran to its end every section's index.html,
\* rss.xml and recent.html hold what the section's make_list calls wrote,
\* whatever the section paths and the slugs.
C6_ListsNeverOverwritten ==
    pc = "done" => \A k \in ListSteps : Survives(k)

\* the slugs of the files in S that read_content accepts
Slugs(S) == {Metadata(f.name).slug : f \in {g \in S : Metadata(g.name).exc = "none"}}

SectionSlugs(name) ==
    Slugs(GlobSuffix(get_content_path(name, PathOf(name)), ExtOf(name)))

\* nothing written after section number i's lists has the path of one of them:
\* no later section has its path, no later section's item page is its index
\* page, and no top-level page's slug is its path
NoLaterWriteMeets(i) ==
    /\ \A j \in (i + 1)..Len(Sections) :
          /\ PathOf(Sections[j]) # PathOf(Sections[i])
          /\ \A slug \in SectionSlugs(Sections[j]) :
                PathOf(Sections[j]) \o "/" \o slug # PathOf(Sections[i])
    /\ \A slug \in Slugs(GlobSitePages) : slug # PathOf(Sections[i])

\* C6, amended: the lists of a section survive the build when no later write
\* of the build has the path of one of them.
C6_ListsSurviveWithoutClash ==
    pc = "done" =>
        \A k \in ListSteps : NoLaterWriteMeets(trace[k].sec) => Survives(k)

\* a build of two sections and top-level pages ended with no path clash
C6_Witness ==
    /\ pc = "done"
    /\ Len(Sections) = 2
    /\ Slugs(GlobSitePages) # {}
    /\ SectionSlugs(Sections[2]) # {}
    /\ \A i \in 1..2 : NoLaterWriteMeets(i)
    /\ \A k \in ListSteps : Survives(k)

\* no two files of a section's directory have the same slug
SlugsDiffer(name) ==
    LET files == GlobSuffix(get_content_path(name, PathOf(name)), ExtOf(name))
    IN \A f, g \in files : Metadata(f.name).slug = Metadata(g.name).slug => f = g

\* C7: a second run on the same source tree and configuration leaves the same
\* output tree as the first, whatever order glob returns in each run. Stated
\* for the source trees in which no two files of a section share a slug, so
\* that no two files are written to one path.
C7_SecondRunSameTree ==
    (run > 1 /\ pc = "done" /\ first.pc = "done"
        /\ \A i \in 1..Len(Sections) : SlugsDiffer(Sections[i])) =>
        fs = first.fs

StepNames == <<"pages", "index", "rss", "recent", "read_recent">>

\* the call that comes k-th in main
ExpectedStep(k) ==
    IF k <= 5 * Len(Sections)
    THEN [step |-> StepNames[((k - 1) % 5) + 1], sec |-> ((k - 1) \div 5) + 1]
    ELSE [step |-> IF k = 5 * Len(Sections) + 1 THEN "landing" ELSE "site_pages",
          sec |-> Len(Sections) + 1]

\* the digest of section number j as its make_list call wrote it
DigestOf(j) == trace[5 * (j - 1) + 4].out

\* the parameters hold recent_<s> for the sections before number i, each the
\* digest of its section, and no other recent entry
HoldsRecentOfSectionsBefore(shared, i) ==
    /\ DOMAIN shared = {"recent_" \o Sections[j] : j \in 1..(i - 1)}
    /\ \A j \in 1..(i - 1) : shared["recent_" \o Sections[j]] = DigestOf(j)

\* the pages and lists in the output tree that were rendered for section
\* path, and the top-level pages
RenderedFor(blog) ==
    {f \in DOMAIN fs : fs[f].kind \in {"page", "list"} /\ fs[f].params.blog = blog}

\* C10: main's calls come in configuration order, per section make_pages, index,
\* feed, digest, read-back; every rendering sees recent_<s> exactly for the
\* sections already finished, the top-level pages those of every section.
C10_RecentOfFinishedSections ==
    /\ \A k \in 1..Len(trace) :
          /\ trace[k].step = ExpectedStep(k).step
          /\ trace[k].sec = ExpectedStep(k).sec
          /\ HoldsRecentOfSectionsBefore(trace[k].params, trace[k].sec)
    /\ pc \notin {"start", "none"} => HoldsRecentOfSectionsBefore(params, sec)
    /\ \A f \in RenderedFor({}) :
          HoldsRecentOfSectionsBefore(fs[f].params.shared, Len(Sections) + 1)
    /\ \A f \in DOMAIN fs : fs[f].kind \in {"page", "list"} =>
          \E i \in 1..(Len(Sections) + 1) :
              HoldsRecentOfSectionsBefore(fs[f].params.shared, i)

\* the landing page was rendered after two sections, seeing both digests
C10_Witness ==
    /\ pc = "done"
    /\ Len(Sections) = 2
    /\ documentroot \o "/index.html" \in DOMAIN fs
    /\ fs[documentroot \o "/index.html"].kind = "page"
    /\ DOMAIN fs[documentroot \o "/index.html"].params.shared =
          {"recent_blog", "recent_news"}

=============================================================================
